---- MODULE Spec2Model ----
(***************************************************************************)
(* Messaging core of microservice_fastapi: the gateway's OcrRpcClient      *)
(* (request/reply over RabbitMQ with a correlation id and an exclusive     *)
(* callback queue) and the auth service's send_otp (publication to the     *)
(* email_notification queue).  The broker is modelled by the queues it     *)
(* holds and by the connections it keeps open.                             *)
(***************************************************************************)
EXTENDS Integers, Sequences, FiniteSets, TLC

(* ---- bounds of the model ---- *)
MaxRequests == 2      \* concurrent /ocr requests
MaxStray    == 1      \* foreign or duplicated replies put on callback queues
MaxOtp      == 2      \* generate_otp requests
MaxWaiting  == 1      \* /ocr requests followed to their end (liveness)
MaxInt      == 2      \* largest integer json.loads reads

Reqs == 1..MaxRequests
Otps == 1..MaxOtp

VARIABLES
    brokerUp,        \* the broker accepts connections
    queues,          \* queue name -> [durable, exclusive, msgs]
    ocr_pc,          \* position of each /ocr handler
    request_json,    \* the payload each /ocr handler passes to call()
    connection,      \* OcrRpcClient.connection: "none" | "open" | "closed"
    callback_queue,  \* OcrRpcClient.callback_queue
    corr_id,         \* OcrRpcClient.corr_id
    response,        \* OcrRpcClient.response
    ocr_result,      \* what the /ocr handler ends with
    respMsg,         \* history: the message on_response last kept
    discarded,       \* history: messages on_response has let pass, per client
    published,       \* history: the requests published by call()
    turns,           \* parity of the turns of call()'s loop so far
    stray,           \* number of stray replies put on callback queues so far
    worker_echo,     \* the worker is the stub that echoes its request
    files,           \* the gateway's working directory: name -> bytes
    filename,        \* file.filename of each /ocr upload
    otp_pc,          \* position of each generate_otp handler
    otp_value,       \* the OTP generate_otp() drew for the handler
    otp_connection,  \* send_otp's connection: "none" | "open" | "closed"
    otp_channel,     \* send_otp's channel: "none" | "open" | "closed"
    otp_caught,      \* the exception send_otp's except clause caught
    otp_result,      \* what the generate_otp handler ends with
    otp_email,       \* the address each generate_otp request names
    enqueued,        \* history: the handler's message reached the queue
    seenQueue,       \* history: state of email_notification at the declare
    retried,         \* history: connect_to_rabbitmq slept after a failure
    dbUp,            \* the database answers
    users,           \* the users table: address -> row (id 0: no row)
    issued,          \* history: the addresses a token was issued for
    auth_reply       \* the last answer to a request, with the request

brokerVars == <<brokerUp, queues>>
rpcVars == <<ocr_pc, request_json, connection, callback_queue,
             corr_id, response, ocr_result, respMsg, discarded, published,
             turns, stray, worker_echo, files, filename>>
otpVars == <<otp_pc, otp_value, otp_connection, otp_channel, otp_caught,
             otp_result, otp_email, enqueued, seenQueue, retried>>
authVars == <<dbUp, users, issued, auth_reply>>
vars == <<brokerVars, rpcVars, otpVars, authVars>>

(* ---- Python values and json ---- *)
PyStr(s) == [t |-> "str", s |-> s]
PyInt(n) == [t |-> "int", n |-> n]
PyDict(items) == [t |-> "dict", items |-> items]
PyNone == [t |-> "None"]

Punct(c) == [k |-> "punct", s |-> c]
StrTok(s) == [k |-> "str", s |-> s]
NumTok(n) == [k |-> "num", s |-> ToString(n)]

RECURSIVE dumps(_)
RECURSIVE dumpsItems(_)
dumpsItems(items) ==
    IF items = <<>> THEN <<>>
    ELSE <<StrTok(Head(items)[1]), Punct(":")>> \o dumps(Head(items)[2])
         \o (IF Tail(items) = <<>> THEN <<>>
             ELSE <<Punct(",")>> \o dumpsItems(Tail(items)))

dumps(x) ==
    IF x.t = "str" THEN <<StrTok(x.s)>>
    ELSE IF x.t = "int" THEN <<NumTok(x.n)>>
    ELSE IF x.t = "dict"
         THEN <<Punct("{")>> \o dumpsItems(x.items) \o <<Punct("}")>>
    ELSE <<Punct("null")>>

ParseFail == [ok |-> FALSE, val |-> PyNone, rest |-> <<>>]
IsNum(s) == \E n \in 0..MaxInt : ToString(n) = s
ToInt(s) == CHOOSE n \in 0..MaxInt : ToString(n) = s

\* F applied to the value of e, e being evaluated once
With(e, F(_)) == CHOOSE y \in {F(v) : v \in {e}} : TRUE

RECURSIVE ParseValue(_)
RECURSIVE ParseItems(_, _)
ParseItems(toks, acc) ==
    IF Len(toks) < 2 \/ toks[1].k # "str" \/ toks[2] # Punct(":")
    THEN ParseFail
    ELSE With(ParseValue(Tail(Tail(toks))), LAMBDA v :
            IF ~v.ok \/ v.rest = <<>> THEN ParseFail
            ELSE IF Head(v.rest) = Punct("}")
            THEN [ok |-> TRUE,
                  val |-> PyDict(Append(acc, <<toks[1].s, v.val>>)),
                  rest |-> Tail(v.rest)]
            ELSE IF Head(v.rest) = Punct(",")
            THEN ParseItems(Tail(v.rest), Append(acc, <<toks[1].s, v.val>>))
            ELSE ParseFail)

ParseValue(toks) ==
    IF toks = <<>> THEN ParseFail
    ELSE With(Head(toks), LAMBDA h :
            IF h.k = "str"
            THEN [ok |-> TRUE, val |-> PyStr(h.s), rest |-> Tail(toks)]
            ELSE IF h.k = "num" /\ IsNum(h.s)
            THEN [ok |-> TRUE, val |-> PyInt(ToInt(h.s)), rest |-> Tail(toks)]
            ELSE IF h = Punct("null")
            THEN [ok |-> TRUE, val |-> PyNone, rest |-> Tail(toks)]
            ELSE IF h = Punct("{")
            THEN IF Len(toks) >= 2 /\ toks[2] = Punct("}")
                 THEN [ok |-> TRUE, val |-> PyDict(<<>>),
                       rest |-> Tail(Tail(toks))]
                 ELSE ParseItems(Tail(toks), <<>>)
            ELSE ParseFail)

\* json.loads: the decoded value, or JSONDecodeError
loads(text) ==
    With(ParseValue(text), LAMBDA p :
        IF p.ok /\ p.rest = <<>>
        THEN [raised |-> "", value |-> p.val]
        ELSE [raised |-> "JSONDecodeError", value |-> PyNone])

(* ---- the broker ---- *)
None == [some |-> FALSE, val |-> <<>>]
Some(v) == [some |-> TRUE, val |-> v]

PERSISTENT_DELIVERY_MODE == 2
TRANSIENT_DELIVERY_MODE == 1

\* a message; origin and echo are history fields, not sent on the wire
Msg(body, corr, reply_to, mode, origin, echo) ==
    [body |-> body, correlation_id |-> corr, reply_to |-> reply_to,
     delivery_mode |-> mode, origin |-> origin, echo |-> echo]

NoQueues == [n \in {} |-> 0]
Queue(durable, exclusive) ==
    [durable |-> durable, exclusive |-> exclusive, msgs |-> <<>>]

QueueExists(qs, name) == name \in DOMAIN qs

\* queue.declare of a named queue: "ok" or the broker's channel error
DeclareReply(qs, name, durable, exclusive, passive) ==
    IF passive
    THEN IF QueueExists(qs, name) THEN "ok" ELSE "NOT_FOUND"
    ELSE IF ~QueueExists(qs, name) THEN "ok"
    ELSE IF qs[name].durable = durable /\ qs[name].exclusive = exclusive
    THEN "ok"
    ELSE "PRECONDITION_FAILED"

DeclareQueue(qs, name, durable, exclusive, passive) ==
    IF ~passive /\ ~QueueExists(qs, name)
    THEN qs @@ (name :> Queue(durable, exclusive))
    ELSE qs

DeleteQueue(qs, name) == [n \in DOMAIN qs \ {name} |-> qs[n]]

\* basic.publish on the default exchange: routed to the queue named by the
\* routing key, dropped when there is none (mandatory is not set)
Route(qs, name, m) ==
    IF QueueExists(qs, name)
    THEN [qs EXCEPT ![name].msgs = Append(@, m)]
    ELSE qs

GenName_shared(n) == "amq.gen-" \o ToString(1)

\* the name the broker generates for queue_declare(queue='') on the
\* connection of client n: a name no other queue has
GenName(n) == "amq.gen-" \o ToString(n)

IsPersistent(m) == m.delivery_mode = PERSISTENT_DELIVERY_MODE

\* what a broker restart keeps: durable queues and their persistent messages
AfterRestart(qs) ==
    [n \in {q \in DOMAIN qs : qs[q].durable} |->
        [qs[n] EXCEPT !.msgs = SelectSeq(@, IsPersistent)]]

(* ---- gateway: startup ---- *)
\* lifespan: declares gatewayservice and ocr_service when the broker answers
GatewayLifespan(up, qs) ==
    IF up
    THEN DeclareQueue(DeclareQueue(qs, "gatewayservice", FALSE, FALSE, FALSE),
                      "ocr_service", FALSE, FALSE, FALSE)
    ELSE qs

(* ---- gateway: /ocr and OcrRpcClient ---- *)
RequestJson(name, email, id, file) ==
    PyDict(<< <<"user_name", PyStr(name)>>, <<"user_email", PyStr(email)>>,
              <<"user_id", PyInt(id)>>, <<"file", PyStr(file)>> >>)

B64Alphabet ==
    << "A", "B", "C", "D", "E", "F", "G", "H", "I", "J", "K", "L", "M",
       "N", "O", "P", "Q", "R", "S", "T", "U", "V", "W", "X", "Y", "Z",
       "a", "b", "c", "d", "e", "f", "g", "h", "i", "j", "k", "l", "m",
       "n", "o", "p", "q", "r", "s", "t", "u", "v", "w", "x", "y", "z",
       "0", "1", "2", "3", "4", "5", "6", "7", "8", "9", "+", "/" >>

B64(n) == B64Alphabet[n + 1]

\* base64.b64encode(b).decode() of a sequence of bytes
RECURSIVE b64encode(_)
b64encode(b) ==
    IF Len(b) = 0 THEN ""
    ELSE IF Len(b) = 1
    THEN LET n == b[1] * 16
         IN B64(n \div 64) \o B64(n % 64) \o "=="
    ELSE IF Len(b) = 2
    THEN LET n == b[1] * 1024 + b[2] * 4
         IN B64(n \div 4096) \o B64((n \div 64) % 64) \o B64(n % 64) \o "="
    ELSE LET n == b[1] * 65536 + b[2] * 256 + b[3]
         IN B64(n \div 262144) \o B64((n \div 4096) % 64)
            \o B64((n \div 64) % 64) \o B64(n % 64)
            \o b64encode(SubSeq(b, 4, Len(b)))

\* the bytes request r uploads: b"hi", b"hj", ...
Upload(r) == <<104, 104 + r>>

\* the request built from the bytes read back from the temporary file;
\* request r is made by the user with id r - 1
RequestOf(r, file_data) ==
    RequestJson("ann", "ann@x.io", r - 1, b64encode(file_data))

\* the request of r when the file holds what r uploaded
Payload(r) == RequestOf(r, Upload(r))

\* a file that does not exist
Absent == <<>>

\* the names the uploads may carry
FileName(r) == "scan-" \o ToString(r) \o ".png"
FileNames == {FileName(r) : r \in Reqs}
NoFiles == [n \in FileNames |-> Absent]

\* open(name, "wb") and write: the file is created or replaced
WriteFile(fs, name, data) == [fs EXCEPT ![name] = data]

\* os.remove(name), for a file that exists
RemoveFile(fs, name) == [fs EXCEPT ![name] = Absent]

NoMsg == Msg(<<>>, 0, "", 0, 0, FALSE)
NoResult == [status |-> 0, error |-> "", value |-> PyNone]
Returned(v) == [status |-> 200, error |-> "", value |-> v]
Raised(e) == [status |-> 500, error |-> e, value |-> PyNone]

\* the upload is saved under its own name, then OcrRpcClient.__init__ :
\* connect, declare the exclusive queue, consume
OcrBegin(r) ==
    /\ ocr_pc[r] = "idle"
    /\ files' = WriteFile(files, filename[r], Upload(r))
    /\ IF brokerUp
       THEN /\ connection' = [connection EXCEPT ![r] = "open"]
            /\ callback_queue' = [callback_queue EXCEPT ![r] = GenName(r)]
            /\ queues' = DeclareQueue(queues, GenName(r), FALSE, TRUE, FALSE)
            /\ ocr_pc' = [ocr_pc EXCEPT ![r] = "constructed"]
            /\ UNCHANGED ocr_result
       ELSE /\ ocr_pc' = [ocr_pc EXCEPT ![r] = "raised"]
            /\ ocr_result' = [ocr_result EXCEPT ![r] = Raised("AMQPConnectionError")]
            /\ UNCHANGED <<connection, callback_queue, queues>>
    /\ UNCHANGED <<brokerUp, request_json, corr_id, response, respMsg,
                   discarded, published, turns, stray, worker_echo, filename,
                   otpVars, authVars>>

RequestBody_bare(image_data) == dumps(image_data)

\* the body call() publishes for its argument
RequestBody(image_data) == dumps(PyDict(<< <<"image_data", image_data>> >>))

\* str(uuid.uuid4()) as drawn by the call of client r: an identifier no
\* other call draws
uuid4(r) == r

\* the file is read back and the request built from it; then call(), up
\* to the publication of the request
OcrCall(r) ==
    /\ ocr_pc[r] = "constructed"
    /\ IF files[filename[r]] = Absent
       THEN /\ ocr_pc' = [ocr_pc EXCEPT ![r] = "raised"]
            /\ ocr_result' = [ocr_result EXCEPT ![r] = Raised("FileNotFoundError")]
            /\ UNCHANGED <<request_json, response, corr_id, queues, published>>
       ELSE /\ request_json' = [request_json EXCEPT ![r] =
                                   RequestOf(r, files[filename[r]])]
            /\ response' = [response EXCEPT ![r] = None]
            /\ corr_id' = [corr_id EXCEPT ![r] = uuid4(r)]
            /\ IF connection[r] = "open"
               THEN LET m == Msg(RequestBody(request_json'[r]), uuid4(r),
                                 callback_queue[r], TRANSIENT_DELIVERY_MODE,
                                 r, FALSE)
                    IN /\ queues' = Route(queues, "ocr_service", m)
                       /\ published' = published \cup {m}
                       /\ ocr_pc' = [ocr_pc EXCEPT ![r] = "awaiting"]
                       /\ UNCHANGED ocr_result
               ELSE /\ ocr_pc' = [ocr_pc EXCEPT ![r] = "raised"]
                    /\ ocr_result' = [ocr_result EXCEPT ![r] =
                                         Raised("AMQPConnectionError")]
                    /\ UNCHANGED <<queues, published>>
    /\ UNCHANGED <<brokerUp, connection, callback_queue, respMsg, discarded,
                   turns, stray, worker_echo, files, filename, otpVars,
                   authVars>>

\* on_response, on the client's response (with the history of it)
on_response_unchecked(st, corr, m) ==
    [st EXCEPT !.response = Some(m.body), !.kept = m]

on_response_deaf(st, corr, m) == [st EXCEPT !.discarded = @ + 1]

on_response(st, corr, m) ==
    IF corr = m.correlation_id
    THEN [st EXCEPT !.response = Some(m.body), !.kept = m]
    ELSE [st EXCEPT !.discarded = @ + 1]

\* the callbacks of one process_data_events over the messages delivered
RECURSIVE Dispatch(_, _, _)
Dispatch(st, corr, batch) ==
    IF batch = <<>> THEN st
    ELSE Dispatch(on_response(st, corr, Head(batch)), corr, Tail(batch))

\* what call() returns for the response it holds: json.loads(self.response)
CallReturn(resp) ==
    With(loads(resp.val), LAMBDA d :
        IF d.raised = "" THEN Returned(d.value) ELSE Raised(d.raised))

\* the end of the handler once call() is over: os.remove of the temporary
\* file, which raises when the file is gone, then the return of the reply
OcrEnd(called, file) ==
    IF called.status # 200 THEN called
    ELSE IF file = Absent THEN Raised("FileNotFoundError")
    ELSE called

AutoAck_never(q, k) == q

\* basic_consume(auto_ack=True): the k messages delivered from q are
\* acknowledged on delivery, whatever on_response does with them
AutoAck(q, k) == SubSeq(q, k + 1, Len(q))

\* the parity of the turns of call()'s loop, kept for the requests that are
\* followed to their end
Turn(r, n) == IF r \in 1..MaxWaiting THEN 1 - n ELSE n

\* process_data_events on a connection that is closed
process_data_events_closed_silent(r) ==
    /\ turns' = [turns EXCEPT ![r] = Turn(r, @)]
    /\ UNCHANGED <<queues, response, respMsg, discarded, ocr_pc, ocr_result,
                   files>>

process_data_events_closed(r) ==
    /\ ocr_pc' = [ocr_pc EXCEPT ![r] = "raised"]
    /\ ocr_result' = [ocr_result EXCEPT ![r] = Raised("AMQPConnectionError")]
    /\ turns' = [turns EXCEPT ![r] = 0]
    /\ UNCHANGED <<queues, response, respMsg, discarded, files>>

\* one turn of call()'s loop: process_data_events, which hands the k
\* deliveries that are ready to on_response (an idle turn, k = 0, when the
\* callback queue is empty), then the test of self.response and, when it is
\* set, the return through the handler
ProcessDataEvents(r) ==
    /\ ocr_pc[r] = "awaiting"
    /\ IF connection[r] # "open"
       THEN process_data_events_closed(r)
       ELSE /\ QueueExists(queues, callback_queue[r])
            /\ \E k \in (IF queues[callback_queue[r]].msgs = <<>> THEN {0}
                          ELSE 1..Len(queues[callback_queue[r]].msgs)) :
                 LET q == queues[callback_queue[r]].msgs
                     st == Dispatch([response |-> response[r],
                                     kept |-> respMsg[r],
                                     discarded |-> discarded[r]],
                                    corr_id[r], SubSeq(q, 1, k))
                 IN /\ queues' = [queues EXCEPT ![callback_queue[r]].msgs =
                                      AutoAck(q, k)]
                    /\ response' = [response EXCEPT ![r] = st.response]
                    /\ respMsg' = [respMsg EXCEPT ![r] = st.kept]
                    /\ discarded' = [discarded EXCEPT ![r] = st.discarded]
                    /\ IF st.response.some
                       THEN /\ ocr_result' = [ocr_result EXCEPT ![r] =
                                  OcrEnd(CallReturn(st.response),
                                         files[filename[r]])]
                            /\ ocr_pc' = [ocr_pc EXCEPT ![r] =
                                  IF ocr_result'[r].status = 200
                                  THEN "returned" ELSE "raised"]
                            /\ files' =
                                  IF CallReturn(st.response).status = 200
                                     /\ files[filename[r]] # Absent
                                  THEN RemoveFile(files, filename[r])
                                  ELSE files
                            /\ turns' = [turns EXCEPT ![r] = 0]
                       ELSE /\ turns' = [turns EXCEPT ![r] = Turn(r, @)]
                            /\ UNCHANGED <<ocr_pc, ocr_result, files>>
    /\ UNCHANGED <<brokerUp, request_json, connection, callback_queue,
                   corr_id, published, stray, worker_echo, filename, otpVars,
                   authVars>>

(* ---- the worker behind ocr_service, and stray replies ---- *)
OcrText == dumps(PyDict(<< <<"text", PyStr("hi")>> >>))

\* the worker takes a request and replies to reply_to with its correlation
\* id; a request it does not acknowledge is delivered again
WorkerReply(ack) ==
    /\ brokerUp
    /\ QueueExists(queues, "ocr_service")
    /\ queues["ocr_service"].msgs # <<>>
    /\ ack \/ stray < MaxStray
    /\ LET m == Head(queues["ocr_service"].msgs)
           reply == Msg(IF worker_echo THEN m.body ELSE OcrText,
                        m.correlation_id, "", TRANSIENT_DELIVERY_MODE,
                        m.origin, worker_echo)
           taken == IF ack
                    THEN [queues EXCEPT !["ocr_service"].msgs = Tail(@)]
                    ELSE queues
       IN queues' = Route(taken, m.reply_to, reply)
    /\ stray' = IF ack THEN stray ELSE stray + 1
    /\ UNCHANGED <<brokerUp, ocr_pc, request_json, connection,
                   callback_queue, corr_id, response, ocr_result, respMsg,
                   discarded, published, turns, worker_echo, files, filename,
                   otpVars, authVars>>

OriginOf(c) ==
    IF \E p \in published : p.correlation_id = c
    THEN (CHOOSE p \in published : p.correlation_id = c).origin
    ELSE 0

\* a reply that is not the one client r awaits reaches r's callback queue
InjectForeign(r, c) ==
    /\ brokerUp
    /\ stray < MaxStray
    /\ connection[r] = "open"
    /\ QueueExists(queues, callback_queue[r])
    /\ c \in {0} \cup {corr_id[x] : x \in Reqs \ {r}}
    /\ ocr_pc[r] \in {"constructed", "awaiting"}
    /\ queues' = Route(queues, callback_queue[r],
                       Msg(dumps(PyStr("foreign")), c, "",
                           TRANSIENT_DELIVERY_MODE, OriginOf(c), FALSE))
    /\ stray' = stray + 1
    /\ UNCHANGED <<brokerUp, ocr_pc, request_json, connection,
                   callback_queue, corr_id, response, ocr_result, respMsg,
                   discarded, published, turns, worker_echo, files, filename,
                   otpVars, authVars>>

(* ---- the environment: connections and the broker ---- *)
\* the connection of client r is lost; its exclusive queue goes with it
DropConnection(r) ==
    /\ connection[r] = "open"
    /\ ocr_pc[r] \in {"constructed", "awaiting"}
    /\ connection' = [connection EXCEPT ![r] = "closed"]
    /\ queues' = DeleteQueue(queues, callback_queue[r])
    /\ UNCHANGED <<brokerUp, ocr_pc, request_json,
                   callback_queue, corr_id, response, ocr_result, respMsg,
                   discarded, published, turns, stray, worker_echo, files,
                   filename, otpVars, authVars>>

Closed(c) == IF c = "open" THEN "closed" ELSE c

BrokerStop ==
    /\ brokerUp
    /\ brokerUp' = FALSE
    /\ queues' = AfterRestart(queues)
    /\ connection' = [r \in Reqs |-> Closed(connection[r])]
    /\ otp_connection' = [h \in Otps |-> Closed(otp_connection[h])]
    /\ otp_channel' = [h \in Otps |-> Closed(otp_channel[h])]
    /\ UNCHANGED <<ocr_pc, request_json, callback_queue,
                   corr_id, response, ocr_result, respMsg, discarded, published,
                   turns, stray, worker_echo, files, filename, otp_pc, otp_value,
                   otp_caught, otp_result, otp_email,
                   enqueued, seenQueue, retried, authVars>>

BrokerStart ==
    /\ ~brokerUp
    /\ brokerUp' = TRUE
    /\ UNCHANGED <<queues, rpcVars, otpVars, authVars>>

(* ---- auth: the users table ---- *)
\* the addresses of the requests, and the passwords
Emails == {"a@b.com", "new@b.com"}
Passwords == {"pw", "guess"}

\* a column that holds no value
NULL == "NULL"

\* the passwords of the model are within bcrypt's 72 bytes, which
\* _prepare_password returns as they are
_prepare_password(password) == password

\* _hash.bcrypt.hash(_prepare_password(password))
Hash(password) == "bcrypt:" \o _prepare_password(password)

NoRow == [id |-> 0, hashed_password |-> "", is_verified |-> FALSE, otp |-> NULL]

\* the row of a user as create_user builds it: not verified, no OTP
NewUser(id, hashed_password) ==
    [id |-> id, hashed_password |-> hashed_password, is_verified |-> FALSE,
     otp |-> NULL]

NextId(db) == Cardinality({e \in Emails : db[e].id # 0}) + 1

\* get_user_by_email: the filter is `email == email and is_verified == True`,
\* of which Python's `and` keeps the first comparison: the row with that
\* address, verified or not (NoRow for None)
get_user_by_email(db, email) == db[email]

Truthy(row) == row.id # 0

UserState(row) ==
    IF ~Truthy(row) THEN "absent"
    ELSE IF row.is_verified THEN "verified" ELSE "unverified"

\* User.verify_password
verify_password(row, password) == row.hashed_password = Hash(password)

\* an HTTPException (or an answer) with that status and detail
Http(status, detail) == [status |-> status, error |-> detail, value |-> PyNone]

DatabaseUnavailable == Http(503, "Database service is unavailable")

\* the address of the user the notifications of the model are sent to
UserEmail == "a@b.com"

NoUsers == [e \in Emails |-> NoRow]

\* the answer of an auth endpoint, with the request it answers: the address
\* named, whether the database answered, the user's row as the handler found
\* it, whether the password verified, whether a token was issued, the OTP
\* submitted, and the status the gateway gave when the request came through
\* one of its routes (0 when it was made to the auth service itself)
AuthReply(endpoint, email, status, db, user, pw_ok, token, otp) ==
    [endpoint |-> endpoint, email |-> email, status |-> status, db |-> db,
     user |-> user, pw_ok |-> pw_ok, token |-> token, otp |-> otp, gw |-> 0]

NoReply == AuthReply("", "", 0, TRUE, "", FALSE, FALSE, "")

InitAuthVars ==
    /\ dbUp = TRUE
    /\ users = NoUsers
    /\ issued = {}
    /\ auth_reply = NoReply

InitCallVars ==
    /\ ocr_pc = [r \in Reqs |-> "idle"]
    /\ request_json = [r \in Reqs |-> PyNone]
    /\ connection = [r \in Reqs |-> "none"]
    /\ callback_queue = [r \in Reqs |-> ""]
    /\ corr_id = [r \in Reqs |-> 0]
    /\ response = [r \in Reqs |-> None]
    /\ ocr_result = [r \in Reqs |-> NoResult]
    /\ respMsg = [r \in Reqs |-> NoMsg]
    /\ discarded = [r \in Reqs |-> 0]
    /\ published = {}
    /\ turns = [r \in Reqs |-> 0]
    /\ stray = 0
    /\ files = NoFiles

\* the uploads carry names of their own
InitRpcVars ==
    /\ InitCallVars
    /\ filename = [r \in Reqs |-> FileName(r)]

InitOtpVars ==
    /\ otp_pc = [h \in Otps |-> "idle"]
    /\ otp_value = [h \in Otps |-> ""]
    /\ otp_connection = [h \in Otps |-> "none"]
    /\ otp_channel = [h \in Otps |-> "none"]
    /\ otp_caught = [h \in Otps |-> ""]
    /\ otp_result = [h \in Otps |-> NoResult]
    /\ otp_email = [h \in Otps |-> ""]
    /\ enqueued = [h \in Otps |-> FALSE]
    /\ seenQueue = [h \in Otps |-> ""]
    /\ retried = [h \in Otps |-> FALSE]

\* the gateway alone, after its startup
InitRpc ==
    /\ brokerUp \in BOOLEAN
    /\ queues = GatewayLifespan(brokerUp, NoQueues)
    /\ worker_echo \in BOOLEAN
    /\ InitRpcVars
    /\ InitOtpVars
    /\ InitAuthVars

\* the steps of the gateway with the /ocr requests of R, and of its environment
NextRpcOf(R) ==
    \/ \E r \in R : OcrBegin(r)
    \/ \E r \in R : OcrCall(r)
    \/ \E r \in R : ProcessDataEvents(r)
    \/ \E ack \in BOOLEAN : WorkerReply(ack)
    \/ \E r \in R, c \in 0..MaxRequests : InjectForeign(r, c)
    \/ \E r \in R : DropConnection(r)
    \/ BrokerStart

NextRpc == NextRpcOf(Reqs)

SpecRpc == InitRpc /\ [][NextRpc]_vars

\* the calls followed to their end: their handler threads keep running,
\* while the worker and the broker owe nothing
Waiting == 1..MaxWaiting

NextWaiting == NextRpcOf(Waiting)

FairRpc ==
    /\ InitRpc
    /\ [][NextWaiting]_vars
    /\ \A r \in Waiting : WF_vars(OcrCall(r)) /\ WF_vars(ProcessDataEvents(r))

\* the /ocr requests with uploads of any names, the same name included, a
\* broker that stays up and a worker that answers every request
InitFile ==
    /\ brokerUp = TRUE
    /\ queues = GatewayLifespan(brokerUp, NoQueues)
    /\ worker_echo \in BOOLEAN
    /\ InitCallVars
    /\ filename \in [Reqs -> FileNames]
    /\ InitOtpVars
    /\ InitAuthVars

NextFile ==
    \/ \E r \in Reqs : OcrBegin(r)
    \/ \E r \in Reqs : OcrCall(r)
    \/ \E r \in Reqs : ProcessDataEvents(r)
    \/ WorkerReply(TRUE)

SpecFile == InitFile /\ [][NextFile]_vars

(* ---- auth: startup ---- *)
\* lifespan: declares email_notification with the defaults (not durable)
\* when the broker answers; a failure is logged and the service starts
AuthLifespan(up, qs) ==
    IF up /\ DeclareReply(qs, "email_notification", FALSE, FALSE, FALSE) = "ok"
    THEN DeclareQueue(qs, "email_notification", FALSE, FALSE, FALSE)
    ELSE qs

(* ---- auth: generate_otp and send_otp ---- *)
\* the values random.randint(100000, 999999) may draw, two of them
OtpValues == {"123456", "654321"}

\* the message send_otp builds for the user and the OTP
OtpMessage(email, otp) ==
    PyDict(<< <<"email", PyStr(email)>>,
              <<"subject", PyStr("Account Verification OTP Notification")>>,
              <<"other", PyStr("null")>>,
              <<"body", PyStr("Your OTP for account verification is: " \o otp
                  \o " \n Please enter this OTP on the verification page to complete your account setup. \n If you did not request this OTP, please ignore this message.\n Thank you ")>> >>)

OtpMsg_transient(h, otp) ==
    Msg(dumps(OtpMessage(otp_email[h], otp)), 0, "", TRANSIENT_DELIVERY_MODE,
        h, FALSE)

OtpMsg(h, otp) ==
    Msg(dumps(OtpMessage(otp_email[h], otp)), 0, "", PERSISTENT_DELIVERY_MODE,
        h, FALSE)

QueueState(qs, name) ==
    IF ~QueueExists(qs, name) THEN "absent"
    ELSE IF qs[name].durable THEN "durable" ELSE "transient"

\* send_otp_mail up to the call of send_otp: the user is looked up and,
\* for a user who is not verified, the OTP is drawn
OtpBegin(h) ==
    /\ otp_pc[h] = "idle"
    /\ \E email \in Emails :
         LET user == get_user_by_email(users, email)
         IN /\ otp_email' = [otp_email EXCEPT ![h] = email]
            /\ IF ~dbUp \/ ~Truthy(user) \/ user.is_verified
               THEN /\ otp_pc' = [otp_pc EXCEPT ![h] = "done"]
                    /\ otp_result' = [otp_result EXCEPT ![h] =
                          IF ~dbUp THEN DatabaseUnavailable
                          ELSE IF ~Truthy(user) THEN Http(404, "User not found")
                          ELSE Http(400, "User is already verified")]
                    /\ UNCHANGED otp_value
               ELSE /\ \E otp \in OtpValues :
                          otp_value' = [otp_value EXCEPT ![h] = otp]
                    /\ otp_pc' = [otp_pc EXCEPT ![h] = "connecting"]
                    /\ UNCHANGED otp_result
    /\ UNCHANGED <<brokerVars, rpcVars, otp_connection, otp_channel, otp_caught,
                   enqueued, seenQueue, retried, authVars>>

\* one turn of connect_to_rabbitmq's loop: the connection, or the message
\* and the sleep before the next turn
connect_to_rabbitmq_once(h) ==
    IF brokerUp
    THEN /\ otp_connection' = [otp_connection EXCEPT ![h] = "open"]
         /\ otp_pc' = [otp_pc EXCEPT ![h] = "declare"]
         /\ UNCHANGED otp_result
    ELSE /\ otp_pc' = [otp_pc EXCEPT ![h] = "done"]
         /\ otp_result' = [otp_result EXCEPT ![h] =
                              Raised("AMQPConnectionError")]
         /\ UNCHANGED otp_connection

connect_to_rabbitmq(h) ==
    IF brokerUp
    THEN /\ otp_connection' = [otp_connection EXCEPT ![h] = "open"]
         /\ otp_pc' = [otp_pc EXCEPT ![h] = "declare"]
         /\ UNCHANGED otp_result
    ELSE /\ otp_pc' = [otp_pc EXCEPT ![h] = "sleeping"]
         /\ UNCHANGED <<otp_connection, otp_result>>

OtpConnect(h) ==
    /\ otp_pc[h] = "connecting"
    /\ connect_to_rabbitmq(h)
    /\ UNCHANGED <<brokerVars, rpcVars, otp_value, otp_channel, otp_caught,
                   otp_email, enqueued, seenQueue, retried, authVars>>

\* time.sleep(5) has elapsed
OtpWake(h) ==
    /\ otp_pc[h] = "sleeping"
    /\ otp_pc' = [otp_pc EXCEPT ![h] = "connecting"]
    /\ retried' = [retried EXCEPT ![h] = TRUE]
    /\ UNCHANGED <<brokerVars, rpcVars, otp_value, otp_connection, otp_channel,
                   otp_caught, otp_result, otp_email, enqueued, seenQueue,
                   authVars>>

\* the provisioning that follows a passive declare that answered with the
\* queue name `declared`: current_durable holds that name
Provision_redeclare(qs, declared) ==
    DeclareQueue(DeleteQueue(qs, "email_notification"),
                 "email_notification", TRUE, FALSE, FALSE)

Provision(qs, declared) ==
    LET current_durable == declared
    IN IF current_durable # ""
       THEN IF declared # current_durable
            THEN DeclareQueue(DeleteQueue(qs, "email_notification"),
                              "email_notification", TRUE, FALSE, FALSE)
            ELSE qs
       ELSE DeclareQueue(qs, "email_notification", TRUE, FALSE, FALSE)

\* connection.channel(), then the try block up to the provisioning
SendOtpDeclare(h) ==
    /\ otp_pc[h] = "declare"
    /\ seenQueue' = [seenQueue EXCEPT ![h] =
                        IF otp_connection[h] = "open"
                        THEN QueueState(queues, "email_notification") ELSE @]
    /\ IF otp_connection[h] # "open"
       THEN \* connection.channel() raises, outside the try
            /\ otp_pc' = [otp_pc EXCEPT ![h] = "done"]
            /\ otp_result' = [otp_result EXCEPT ![h] =
                                 Raised("ConnectionWrongStateError")]
            /\ UNCHANGED <<queues, otp_channel, otp_caught>>
       ELSE IF DeclareReply(queues, "email_notification", FALSE, FALSE, TRUE) = "ok"
       THEN /\ queues' = Provision(queues, "email_notification")
            /\ otp_channel' = [otp_channel EXCEPT ![h] = "open"]
            /\ otp_pc' = [otp_pc EXCEPT ![h] = "publish"]
            /\ UNCHANGED <<otp_caught, otp_result>>
       ELSE \* 404: the broker closes the channel, the except clause prints
            /\ otp_channel' = [otp_channel EXCEPT ![h] = "closed"]
            /\ otp_caught' = [otp_caught EXCEPT ![h] = "ChannelClosedByBroker"]
            /\ otp_pc' = [otp_pc EXCEPT ![h] = "finally"]
            /\ UNCHANGED <<queues, otp_result>>
    /\ UNCHANGED <<brokerUp, rpcVars, otp_value, otp_connection, otp_email,
                   enqueued, retried, authVars>>

\* basic_publish of the message, persistent, and the print after it
SendOtpPublish(h) ==
    /\ otp_pc[h] = "publish"
    /\ IF otp_channel[h] = "open"
       THEN /\ queues' = Route(queues, "email_notification",
                               OtpMsg(h, otp_value[h]))
            /\ enqueued' = [enqueued EXCEPT ![h] =
                               QueueExists(queues, "email_notification")]
            /\ UNCHANGED otp_caught
       ELSE /\ otp_caught' = [otp_caught EXCEPT ![h] = "AMQPConnectionError"]
            /\ UNCHANGED <<queues, enqueued>>
    /\ otp_pc' = [otp_pc EXCEPT ![h] = "finally"]
    /\ UNCHANGED <<brokerUp, rpcVars, otp_value, otp_connection, otp_channel,
                   otp_result, otp_email, seenQueue, retried, authVars>>

\* channel.close(): "" or the exception it raises
ChannelClose_lenient(chan) == ""

ChannelClose(chan) == IF chan = "open" THEN "" ELSE "ChannelWrongStateError"

\* connection.close(): "" or the exception it raises
ConnectionClose(conn) ==
    IF conn = "open" THEN "" ELSE "ConnectionWrongStateError"

\* the finally clause of send_otp, then the rest of send_otp_mail: when
\* send_otp returned, the OTP is stored (user.otp = otp, commit) and the
\* answer given
SendOtpFinally(h) ==
    /\ otp_pc[h] = "finally"
    /\ otp_pc' = [otp_pc EXCEPT ![h] = "done"]
    /\ IF ChannelClose(otp_channel[h]) # ""
       THEN /\ otp_result' = [otp_result EXCEPT ![h] =
                                 Raised(ChannelClose(otp_channel[h]))]
            /\ UNCHANGED <<otp_channel, otp_connection, users>>
       ELSE /\ otp_channel' = [otp_channel EXCEPT ![h] = Closed(@)]
            /\ IF ConnectionClose(otp_connection[h]) # ""
               THEN /\ otp_result' = [otp_result EXCEPT ![h] =
                                    Raised(ConnectionClose(otp_connection[h]))]
                    /\ UNCHANGED <<otp_connection, users>>
               ELSE /\ otp_connection' = [otp_connection EXCEPT ![h] = "closed"]
                    /\ IF dbUp
                       THEN /\ users' = [users EXCEPT ![otp_email[h]].otp =
                                            otp_value[h]]
                            /\ otp_result' = [otp_result EXCEPT ![h] =
                                   Returned(PyStr("OTP sent to your email"))]
                       ELSE /\ otp_result' = [otp_result EXCEPT ![h] =
                                                 DatabaseUnavailable]
                            /\ UNCHANGED users
    /\ UNCHANGED <<brokerVars, rpcVars, otp_value, otp_caught, otp_email,
                   enqueued, seenQueue, retried, dbUp, issued, auth_reply>>

\* the auth service alone, after its startup and the registration of a
\* user; the queue may have been declared before, durable, by the consumer
\* of the notifications
InitOtp ==
    /\ brokerUp \in BOOLEAN
    /\ \E pre \in {NoQueues,
                   DeclareQueue(NoQueues, "email_notification", TRUE, FALSE, FALSE)} :
          queues = AuthLifespan(brokerUp, pre)
    /\ worker_echo = FALSE
    /\ InitRpcVars
    /\ InitOtpVars
    /\ dbUp = TRUE
    /\ users = [NoUsers EXCEPT ![UserEmail] = NewUser(1, Hash("pw"))]
    /\ issued = {}
    /\ auth_reply = NoReply

NextOtp ==
    \/ \E h \in Otps : OtpBegin(h)
    \/ \E h \in Otps : OtpConnect(h)
    \/ \E h \in Otps : OtpWake(h)
    \/ \E h \in Otps : SendOtpDeclare(h)
    \/ \E h \in Otps : SendOtpPublish(h)
    \/ \E h \in Otps : SendOtpFinally(h)
    \/ BrokerStop
    \/ BrokerStart

SpecOtp == InitOtp /\ [][NextOtp]_vars

\* a handler that is running keeps running; requests and the broker owe
\* nothing
FairOtp ==
    /\ SpecOtp
    /\ \A h \in Otps :
          /\ WF_vars(OtpConnect(h)) /\ WF_vars(OtpWake(h))
          /\ WF_vars(SendOtpDeclare(h)) /\ WF_vars(SendOtpPublish(h))
          /\ WF_vars(SendOtpFinally(h))

(* ---- gateway: the auth routes ---- *)
\* the try block of a route: requests.post raises ConnectionError (upstream
\* 0), or the answer is returned when its status is the one the route
\* expects, or HTTPException(status_code = upstream) is raised
RouteTry(expected, upstream) ==
    IF upstream = 0 THEN "ConnectionError"
    ELSE IF upstream = expected THEN "return"
    ELSE "HTTPException"

\* the status a route answers with: its except clauses turn ConnectionError
\* into 503 and any other Exception, the HTTPException raised in the try
\* block included, into 500
Relay(expected, upstream) ==
    IF RouteTry(expected, upstream) = "return" THEN 200
    ELSE IF RouteTry(expected, upstream) = "ConnectionError" THEN 503
    ELSE 500

\* the status each route takes for success
Expected(route) == IF route = "registration" THEN 201 ELSE 200

Routes == {"login", "registration", "generate_otp", "verify_otp"}

\* the answer of the auth service as the route gives it to its client
Through(route, reply) ==
    [reply EXCEPT !.gw = Relay(Expected(route), reply.status)]

\* the answer as its client gets it: from the auth service itself, or
\* through the gateway route that passed the request on
Answer(route, reply) == IF route = "" THEN reply ELSE Through(route, reply)

(* ---- auth: the other endpoints ---- *)
\* the OTPs a verify_otp request may submit
Submitted == OtpValues \cup {""}

\* the tokens a request may carry: one that create_token issued (it names
\* its user), or one that does not decode
Tokens == issued \cup {"garbage"}

\* POST /api/users: the lookup, then the insertion of the new row; the
\* answer to a registration is the HTTPException that the handler returns
\* (not raises), sent with status 200
create_user(email, password, route) ==
    LET db_user == get_user_by_email(users, email)
    IN /\ users' = IF dbUp /\ ~Truthy(db_user)
                   THEN [users EXCEPT ![email] =
                            NewUser(NextId(users), Hash(password))]
                   ELSE users
       /\ auth_reply' = Answer(route,
                             AuthReply("create_user", email,
                                       IF dbUp THEN 200 ELSE 503, dbUp,
                                       UserState(db_user), FALSE, FALSE, ""))
       /\ UNCHANGED <<brokerVars, rpcVars, otpVars, dbUp, issued>>

authenticate_user_unverified(db, email, password) ==
    LET user == get_user_by_email(db, email)
    IN IF ~Truthy(user) THEN "False"
       ELSE IF ~verify_password(user, password) THEN "False"
       ELSE "user"

\* authenticate_user: False, 'is_verified_false' or the user
authenticate_user(db, email, password) ==
    LET user == get_user_by_email(db, email)
    IN IF ~Truthy(user) THEN "False"
       ELSE IF ~user.is_verified THEN "is_verified_false"
       ELSE IF ~verify_password(user, password) THEN "False"
       ELSE "user"

\* POST /api/token
generate_token(email, password, route) ==
    LET user == IF dbUp THEN authenticate_user(users, email, password)
                ELSE "DatabaseUnavailable"
        status == IF user = "DatabaseUnavailable" THEN 503
                  ELSE IF user = "is_verified_false" THEN 403
                  ELSE IF user = "False" THEN 401
                  ELSE 200
    IN /\ issued' = IF status = 200 THEN issued \cup {email} ELSE issued
       /\ auth_reply' = Answer(route,
                             AuthReply("generate_token", email, status, dbUp,
                                  UserState(get_user_by_email(users, email)),
                                  verify_password(
                                      get_user_by_email(users, email), password),
                                  status = 200, ""))
       /\ UNCHANGED <<brokerVars, rpcVars, otpVars, dbUp, users>>

\* get_current_user: jwt.decode, then the user by the id of the payload; the
\* bare except around both answers 401 for whatever was raised inside,
\* DatabaseUnavailable included
get_current_user(up, token) ==
    IF token \notin Emails THEN 401
    ELSE IF ~up THEN 401
    ELSE 200

\* GET /api/users/me
get_user_me(token) ==
    /\ token \in Tokens
    /\ auth_reply' = AuthReply("get_user_me",
                               IF token \in Emails THEN token ELSE "",
                               get_current_user(dbUp, token), dbUp,
                               "", FALSE, FALSE, "")
    /\ UNCHANGED <<brokerVars, rpcVars, otpVars, dbUp, users, issued>>

\* GET /api/users/profile: the user with id 1, whatever address is given
get_user_profile ==
    /\ auth_reply' = AuthReply("get_user_profile", "",
                               IF dbUp THEN 200 ELSE 503, dbUp,
                               "", FALSE, FALSE, "")
    /\ UNCHANGED <<brokerVars, rpcVars, otpVars, dbUp, users, issued>>

\* the test of verify_otp: `not user.otp or user.otp != userdata.otp`
InvalidOtp(user, otp) == user.otp \in {NULL, ""} \/ user.otp # otp

VerifiedRow_keeps_otp(user) == [user EXCEPT !.is_verified = TRUE]

\* the row verify_otp commits: verified, the OTP cleared
VerifiedRow(user) == [user EXCEPT !.is_verified = TRUE, !.otp = NULL]

\* POST /api/users/verify_otp
verify_otp(email, otp, route) ==
    LET user == get_user_by_email(users, email)
        status == IF ~dbUp THEN 503
                  ELSE IF ~Truthy(user) THEN 404
                  ELSE IF InvalidOtp(user, otp) THEN 400
                  ELSE 200
    IN /\ users' = IF status = 200
                   THEN [users EXCEPT ![email] = VerifiedRow(user)]
                   ELSE users
       /\ auth_reply' = Answer(route,
                             AuthReply("verify_otp", email, status, dbUp,
                                       UserState(user), FALSE, FALSE, otp))
       /\ UNCHANGED <<brokerVars, rpcVars, otpVars, dbUp, issued>>

DbStop ==
    /\ dbUp
    /\ dbUp' = FALSE
    /\ UNCHANGED <<brokerVars, rpcVars, otpVars, users, issued, auth_reply>>

DbStart ==
    /\ ~dbUp
    /\ dbUp' = TRUE
    /\ UNCHANGED <<brokerVars, rpcVars, otpVars, users, issued, auth_reply>>

(* ---- the requests, to the gateway's routes or to the auth service ---- *)
\* /auth/login, /auth/register, /auth/verify_otp: the request is passed to
\* the auth service and its answer relayed; the same requests are also made
\* to the auth service itself
Login(email, password, gw) ==
    generate_token(email, password, IF gw THEN "login" ELSE "")

Registration(email, password, gw) ==
    create_user(email, password, IF gw THEN "registration" ELSE "")

VerifyOtp(email, otp, gw) ==
    verify_otp(email, otp, IF gw THEN "verify_otp" ELSE "")

\* /auth/generate_otp, when the auth handler h that took its request ends
GwGenerateOtp(h) ==
    /\ otp_pc[h] = "done"
    /\ auth_reply' = Through("generate_otp",
                             AuthReply("send_otp_mail", otp_email[h],
                                       otp_result[h].status, TRUE, "",
                                       FALSE, FALSE, ""))
    /\ UNCHANGED <<brokerVars, rpcVars, otpVars, dbUp, users, issued>>

\* a route whose request does not reach the auth service
GwUnreachable(route) ==
    /\ auth_reply' = Through(route, AuthReply("", "", 0, TRUE, "",
                                              FALSE, FALSE, ""))
    /\ UNCHANGED <<brokerVars, rpcVars, otpVars, dbUp, users, issued>>

\* the generate_otp handler followed with the other requests
AuthOtps == {1}

\* the auth service with its database, after its startup, the broker
\* reachable: no user is registered, or one is and holds an OTP
InitAuth ==
    /\ brokerUp = TRUE
    /\ \E pre \in {NoQueues,
                   DeclareQueue(NoQueues, "email_notification", TRUE, FALSE, FALSE)} :
          queues = AuthLifespan(brokerUp, pre)
    /\ worker_echo = FALSE
    /\ InitRpcVars
    /\ InitOtpVars
    /\ dbUp = TRUE
    /\ users \in {NoUsers,
                  [NoUsers EXCEPT ![UserEmail] =
                      [NewUser(1, Hash("pw")) EXCEPT !.otp = "654321"]]}
    /\ issued = {}
    /\ auth_reply = NoReply

\* the requests to the auth service, the steps of its generate_otp handler
\* and of the database
NextAuthOf(gw) ==
    \/ \E e \in Emails, pw \in Passwords : Registration(e, pw, gw)
    \/ \E e \in Emails, pw \in Passwords : Login(e, pw, gw)
    \/ \E e \in Emails, otp \in Submitted : VerifyOtp(e, otp, gw)
    \/ \E h \in AuthOtps :
          \/ OtpBegin(h)
          \/ OtpConnect(h)
          \/ SendOtpDeclare(h)
          \/ SendOtpPublish(h)
          \/ SendOtpFinally(h)
    \/ DbStop
    \/ DbStart

NextAuth ==
    \/ NextAuthOf(FALSE)
    \/ \E token \in Emails \cup {"garbage"} : get_user_me(token)
    \/ get_user_profile

SpecAuth == InitAuth /\ [][NextAuth]_vars

\* the same with the requests made through the gateway's routes
NextGw ==
    \/ NextAuthOf(TRUE)
    \/ \E h \in AuthOtps : GwGenerateOtp(h)
    \/ \E route \in Routes : GwUnreachable(route)

SpecGw == InitAuth /\ [][NextGw]_vars

\* both services on one broker
Init ==
    /\ brokerUp \in BOOLEAN
    /\ \E pre \in {NoQueues,
                   DeclareQueue(NoQueues, "email_notification", TRUE, FALSE, FALSE)} :
          queues = AuthLifespan(brokerUp, GatewayLifespan(brokerUp, pre))
    /\ worker_echo \in BOOLEAN
    /\ InitRpcVars
    /\ InitOtpVars
    /\ InitAuthVars

Next == NextRpc \/ NextOtp

Spec == Init /\ [][Next]_vars

(* ---- properties of the RPC client ---- *)
Envelope(image_data) == PyDict(<< <<"image_data", image_data>> >>)

\* C1: what call() holds and returns is the decoded body of a reply carrying
\* the correlation id that call generated; replies with another id that
\* reach the callback queue, in any batch, are never kept nor returned.
C1_OnlyMatchingReply ==
    \A r \in Reqs :
        /\ response[r].some =>
              /\ respMsg[r].correlation_id = corr_id[r]
              /\ respMsg[r].body = response[r].val
        /\ ocr_pc[r] = "returned" =>
              /\ respMsg[r].correlation_id = corr_id[r]
              /\ ocr_result[r] = Returned(loads(respMsg[r].body).value)

\* a call has returned although a foreign reply went through its dispatcher
C1_Witness ==
    \E r \in Reqs : ocr_pc[r] = "returned" /\ discarded[r] > 0

\* C2: a call that gets no matching reply on an open connection still ends
\* (with TimedOut, after a bounded wait).
C2_CallTerminates ==
    \A r \in Waiting :
        (ocr_pc[r] = "awaiting" /\ connection[r] = "open")
            ~> (ocr_pc[r] # "awaiting" \/ connection[r] # "open")

\* C3: a call whose connection is lost while it awaits its reply ends with
\* the connection error; it does not go on waiting, nor return a reply.
C3_DropFailsCall ==
    \A r \in Waiting :
        (ocr_pc[r] = "awaiting" /\ connection[r] = "closed")
            ~> (ocr_pc[r] = "raised"
                /\ ocr_result[r] = Raised("AMQPConnectionError"))

\* a call that had published its request ended with the connection error
C3_Witness ==
    \E r \in Reqs :
        /\ ocr_pc[r] = "raised"
        /\ connection[r] = "closed"
        /\ \E p \in published : p.origin = r
        /\ ocr_result[r] = Raised("AMQPConnectionError")

\* C9 as stated: with a worker that echoes the request body, call(P)
\* returns P.
C9_RoundTripIdentity ==
    \A r \in Reqs :
        (ocr_pc[r] = "returned" /\ respMsg[r].echo)
            => ocr_result[r].value = request_json[r]

\* C9 as amended: with a worker that echoes the request body, call(P)
\* returns the envelope {"image_data": P} that call() published.
C9_RoundTripEnvelope ==
    \A r \in Reqs :
        (ocr_pc[r] = "returned" /\ respMsg[r].echo)
            => ocr_result[r] = Returned(Envelope(request_json[r]))

\* a call answered by the echoing worker has returned
C9_Witness ==
    \E r \in Reqs : ocr_pc[r] = "returned" /\ respMsg[r].echo

\* C10: concurrent /ocr requests each have their own client and callback
\* queue: no two live clients share a queue, a client's queue is named by
\* at most one call, and a request returns only the reply to its own call.
C10_OwnQueuePerRequest ==
    /\ \A r1, r2 \in Reqs :
          (r1 # r2 /\ connection[r1] = "open" /\ connection[r2] = "open")
              => callback_queue[r1] # callback_queue[r2]
    /\ \A r \in Reqs :
          connection[r] # "none" =>
              Cardinality({p \in published :
                              p.reply_to = callback_queue[r]}) <= 1
    /\ \A r \in Reqs : ocr_pc[r] = "returned" => respMsg[r].origin = r

\* two requests in flight at once, both answered on their own queues
C10_Witness ==
    \E r1, r2 \in Reqs :
        /\ r1 # r2
        /\ ocr_pc[r1] = "returned" /\ ocr_pc[r2] = "returned"
        /\ connection[r1] = "open" /\ connection[r2] = "open"

\* a reply carrying the correlation id of r's call is on r's callback queue
MatchingReplyQueued(r) ==
    /\ QueueExists(queues, callback_queue[r])
    /\ \E i \in DOMAIN queues[callback_queue[r]].msgs :
          queues[callback_queue[r]].msgs[i].correlation_id = corr_id[r]

\* call() of r has left its loop holding a reply to its own request, which
\* json.loads decodes: it returns that reply's payload
CallReturnedReply(r) ==
    /\ ocr_pc[r] # "awaiting"
    /\ response[r].some
    /\ response[r].val = respMsg[r].body
    /\ respMsg[r].correlation_id = corr_id[r]
    /\ respMsg[r].origin = r
    /\ CallReturn(response[r]) = Returned(loads(respMsg[r].body).value)

\* C11: a call whose reply (same correlation id, on its reply_to queue) has
\* been published returns that reply's payload and is no longer awaiting,
\* as long as its connection stays open and its loop keeps turning.
C11_ReplyReturned ==
    \A r \in Waiting :
        (ocr_pc[r] = "awaiting" /\ connection[r] = "open"
         /\ MatchingReplyQueued(r))
            ~> (CallReturnedReply(r) \/ connection[r] # "open")

\* a followed call has returned the worker's reply on an open connection
C11_Witness ==
    \E r \in Waiting :
        /\ CallReturnedReply(r)
        /\ connection[r] = "open"
        /\ respMsg[r].body \in {OcrText, RequestBody(request_json[r])}

(* ---- properties of send_otp ---- *)
EmailQueue == queues["email_notification"]

IsPrefix(s, t) == Len(s) <= Len(t) /\ SubSeq(t, 1, Len(s)) = s

\* C4: a generate_otp request whose message did not reach email_notification
\* is never answered as sent: send_otp does not return normally, the OTP is
\* not stored and "OTP sent to your email" is not the answer.
C4_FailureReachesCaller ==
    \A h \in Otps :
        (otp_pc[h] = "done" /\ ~enqueued[h]) =>
            /\ otp_result[h].status # 200
            /\ otp_result[h].error # ""

\* a request whose publication failed inside the try block has ended
C4_Witness ==
    \E h \in Otps :
        /\ otp_pc[h] = "done"
        /\ ~enqueued[h]
        /\ otp_caught[h] # ""
        /\ otp_result[h].status = 500

\* C5: while the broker stays unreachable, a request that needs it ends
\* (with the connection error) instead of retrying the connection for ever.
C5_FailsFastWhenBrokerDown ==
    \A h \in Otps :
        (otp_pc[h] = "connecting" /\ ~brokerUp)
            ~> (otp_pc[h] = "done" \/ brokerUp)

\* C6: send_otp that finds email_notification not durable leaves it durable.
C6_ConflictReconciled ==
    \A h \in Otps :
        (otp_pc[h] = "finally" /\ seenQueue[h] = "transient"
         /\ otp_channel[h] = "open")
            => QueueState(queues, "email_notification") = "durable"

\* C7: send_otp that finds no email_notification queue creates it durable,
\* with exactly one copy of its message in it, and no error.
C7_CreatesDurableQueue ==
    \A h \in Otps :
        (otp_pc[h] = "finally" /\ seenQueue[h] = "absent" /\ brokerUp)
            => /\ QueueState(queues, "email_notification") = "durable"
               /\ Len(SelectSeq(EmailQueue.msgs,
                                LAMBDA m : m.origin = h)) = 1
               /\ otp_caught[h] = ""

\* C8: once email_notification is durable, no step of send_otp changes its
\* parameters, deletes it or removes a message from it, and the declare of
\* a send_otp whose connection is open goes through without an error.
C8_ProvisioningIdempotent ==
    [][ \A h \in Otps :
          ( /\ otp_pc'[h] # otp_pc[h]
            /\ QueueState(queues, "email_notification") = "durable" )
          => /\ QueueState(queues', "email_notification") = "durable"
             /\ queues'["email_notification"].exclusive = EmailQueue.exclusive
             /\ IsPrefix(EmailQueue.msgs, queues'["email_notification"].msgs)
             /\ (otp_pc[h] = "declare" /\ otp_connection[h] = "open")
                    => (otp_pc'[h] = "publish" /\ otp_caught'[h] = "")
      ]_vars

\* two invocations have published to the queue they found durable
C8_Witness ==
    /\ QueueState(queues, "email_notification") = "durable"
    /\ \A h \in 1..2 : otp_pc[h] = "done" /\ seenQueue[h] = "durable"
                       /\ enqueued[h]
    /\ Len(EmailQueue.msgs) >= 2

\* send_otp of handler h is inside connect_to_rabbitmq
Connecting(h) == otp_pc[h] \in {"connecting", "sleeping"}

\* C12: connect_to_rabbitmq does not end with a failure: a failed attempt
\* is followed by the sleep and another attempt, it returns only with an
\* open connection, and once the broker stays reachable it returns.
C12_ConnectRetriesUntilConnected ==
    /\ [][ \A h \in Otps :
             /\ (otp_pc[h] = "connecting" /\ otp_pc'[h] # "connecting") =>
                   \/ /\ otp_pc'[h] = "sleeping"
                      /\ ~brokerUp
                      /\ otp_connection'[h] = otp_connection[h]
                      /\ otp_result'[h] = NoResult
                   \/ /\ otp_pc'[h] = "declare"
                      /\ otp_connection'[h] = "open"
                      /\ otp_result'[h] = NoResult
             /\ (otp_pc[h] = "sleeping" /\ otp_pc'[h] # "sleeping") =>
                   otp_pc'[h] = "connecting"
         ]_vars
    /\ \A h \in Otps :
          (<>[]brokerUp) => (Connecting(h) ~> ~Connecting(h))

\* send_otp got its connection after an attempt that failed
C12_Witness ==
    \E h \in Otps :
        /\ otp_pc[h] = "declare"
        /\ otp_connection[h] = "open"
        /\ retried[h]

\* C13: when send_otp has ended, on any path, the channel and the connection
\* it opened are closed: no publisher connection stays open.
C13_ConnectionsClosedAtEnd ==
    \A h \in Otps :
        otp_pc[h] = "done" =>
            /\ otp_channel[h] # "open"
            /\ otp_connection[h] # "open"

\* the messages among the first k of q that carry the correlation id c
Matching(q, k, c) == {i \in 1..k : q[i].correlation_id = c}

\* C14: every message delivered from the callback queue leaves the queue,
\* matching or not; a delivery of messages none of which carries the awaited
\* id changes neither the response slot nor the awaited id and raises
\* nothing: the call goes on waiting.
C14_MismatchAckedAndIgnored ==
    [][ \A r \in Reqs :
          ( /\ ocr_pc[r] = "awaiting"
            /\ connection[r] = "open"
            /\ (discarded'[r] # discarded[r] \/ response'[r] # response[r]) )
          => \E k \in 1..Len(queues[callback_queue[r]].msgs) :
                LET q == queues[callback_queue[r]].msgs
                IN /\ QueueExists(queues', callback_queue[r])
                   /\ queues'[callback_queue[r]].msgs = SubSeq(q, k + 1, Len(q))
                   /\ discarded'[r] - discarded[r]
                         = k - Cardinality(Matching(q, k, corr_id[r]))
                   /\ corr_id'[r] = corr_id[r]
                   /\ Matching(q, k, corr_id[r]) = {} =>
                         /\ response'[r] = response[r]
                         /\ ocr_pc'[r] = "awaiting"
                         /\ ocr_result'[r] = NoResult
      ]_vars

\* a call still waiting, with an empty slot and an empty callback queue,
\* after a reply that was not its own went through on_response
C14_Witness ==
    \E r \in Reqs :
        /\ ocr_pc[r] = "awaiting"
        /\ connection[r] = "open"
        /\ discarded[r] > 0
        /\ ~response[r].some
        /\ QueueExists(queues, callback_queue[r])
        /\ queues[callback_queue[r]].msgs = <<>>

\* the messages of handler h that are in email_notification
OtpMessagesOf(h) ==
    IF QueueExists(queues, "email_notification")
    THEN SelectSeq(EmailQueue.msgs, LAMBDA m : m.origin = h)
    ELSE <<>>

\* C16: a send_otp invocation puts at most one message in
\* email_notification, one when it ends without a failure, and what it puts
\* there is persistent and carries no reply-to queue and no correlation id.
C16_OnePersistentMessage ==
    \A h \in Otps :
        /\ Len(OtpMessagesOf(h)) <= 1
        /\ (Len(OtpMessagesOf(h)) = 1) => enqueued[h]
        /\ (otp_pc[h] = "done" /\ otp_result[h].status = 200) =>
              /\ enqueued[h]
              /\ otp_caught[h] = ""
        /\ \A i \in DOMAIN OtpMessagesOf(h) :
              /\ IsPersistent(OtpMessagesOf(h)[i])
              /\ OtpMessagesOf(h)[i].reply_to = ""
              /\ OtpMessagesOf(h)[i].correlation_id = 0
              /\ OtpMessagesOf(h)[i].body
                    = dumps(OtpMessage(otp_email[h], otp_value[h]))

\* a send_otp that ended without a failure, its message in the queue
C16_Witness ==
    \E h \in Otps :
        /\ otp_pc[h] = "done"
        /\ otp_result[h].status = 200
        /\ Len(OtpMessagesOf(h)) = 1

(* ---- properties of the auth endpoints and of the gateway's routes ---- *)
\* the endpoints that read or write the database, generate_otp apart
DbEndpoints == {"create_user", "generate_token", "get_user_me",
                "get_user_profile", "verify_otp"}

\* the request answered last reached the database: a token that does not
\* decode is refused before any query
ReachedDatabase(reply) ==
    reply.endpoint \in DbEndpoints
    /\ (reply.endpoint = "get_user_me" => reply.email # "")

\* C15: a request that finds the database unavailable is answered 503, on
\* each of the six endpoints that depend on it.
C15_DatabaseDown503 ==
    /\ [](( ReachedDatabase(auth_reply) /\ ~auth_reply.db )
              => auth_reply.status = 503)
    /\ [][ \A h \in Otps :
             (otp_pc[h] = "idle" /\ otp_pc'[h] # "idle" /\ ~dbUp)
                 => (otp_pc'[h] = "done" /\ otp_result'[h].status = 503)
         ]_vars

\* C17: a token is issued for an address only to a user who exists, whose
\* address a verify_otp has verified, and whose password verifies; a user
\* who exists and is not verified is answered 403, without a token,
\* whatever the password.
C17_TokenOnlyForVerified ==
    /\ [](/\ \A e \in issued : Truthy(users[e]) /\ users[e].is_verified
          /\ (auth_reply.endpoint = "generate_token" /\ auth_reply.status = 200)
                => /\ auth_reply.user = "verified"
                   /\ auth_reply.pw_ok
                   /\ auth_reply.email \in issued
          /\ (auth_reply.endpoint = "generate_token" /\ auth_reply.db
              /\ auth_reply.user = "unverified")
                => /\ auth_reply.status = 403
                   /\ ~auth_reply.token)
    /\ [][ /\ issued' # issued =>
                /\ auth_reply'.endpoint = "generate_token"
                /\ auth_reply'.status = 200
                /\ issued' = issued \cup {auth_reply'.email}
           /\ \A e \in Emails :
                (users'[e].is_verified /\ ~users[e].is_verified) =>
                    /\ auth_reply'.endpoint = "verify_otp"
                    /\ auth_reply'.email = e
                    /\ auth_reply'.status = 200
         ]_vars

\* a token has been issued to one user while the other, registered with the
\* same password, is not verified
C17_Witness ==
    /\ auth_reply.endpoint = "generate_token"
    /\ auth_reply.status = 200
    /\ \E e \in Emails \ issued :
          /\ UserState(users[e]) = "unverified"
          /\ verify_password(users[e], "pw")

\* C18: verify_otp verifies a user only against a stored, non-empty OTP
\* equal to the one submitted, and clears it; a rejected attempt (404, 400)
\* changes no row; an OTP comes to be stored only by a generate_otp that
\* succeeds, so the OTP of a verification is rejected afterwards.
C18_VerifyOtpAgainstStored ==
    [][ /\ \A e \in Emails :
             /\ (users'[e].is_verified /\ ~users[e].is_verified) =>
                   /\ auth_reply'.endpoint = "verify_otp"
                   /\ auth_reply'.email = e
                   /\ auth_reply'.status = 200
             /\ (users'[e].otp # users[e].otp /\ users'[e].otp # NULL) =>
                   \E h \in Otps :
                       /\ otp_pc[h] = "finally" /\ otp_pc'[h] = "done"
                       /\ otp_email[h] = e
                       /\ otp_result'[h].status = 200
                       /\ users'[e].otp = otp_value[h]
        /\ (auth_reply' # auth_reply /\ auth_reply'.endpoint = "verify_otp") =>
             LET e == auth_reply'.email
             IN /\ auth_reply'.status = 200 =>
                      /\ users[e].otp \notin {NULL, ""}
                      /\ users[e].otp = auth_reply'.otp
                      /\ users' = [users EXCEPT ![e].is_verified = TRUE,
                                                ![e].otp = NULL]
                /\ auth_reply'.status # 200 => users' = users
                /\ (auth_reply'.db /\ Truthy(users[e])
                    /\ users[e].otp \in {NULL, ""}) => auth_reply'.status = 400
      ]_vars

\* the OTP that verified a user has been submitted again and rejected
C18_Witness ==
    /\ auth_reply.endpoint = "verify_otp"
    /\ auth_reply.status = 400
    /\ auth_reply.user = "verified"
    /\ auth_reply.otp \in OtpValues
    /\ users[auth_reply.email].otp = NULL

\* C19: a gateway auth route gives its client the status of the auth
\* service's answer when that is not a success; it answers 503 only when
\* the auth service was not reached (or answered 503), and never 500 for
\* a refusal (4xx, 503) of the auth service.
C19_RelaysUpstreamStatus ==
    auth_reply.gw # 0 =>
        /\ auth_reply.status >= 400 => auth_reply.gw = auth_reply.status
        /\ auth_reply.gw = 503 => auth_reply.status \in {0, 503}
        /\ auth_reply.gw = 500 =>
              (auth_reply.status < 400 \/ auth_reply.status = 500)

\* C20: concurrent /ocr requests do not interfere through the temporary
\* file: every request published carries the bytes its own request
\* uploaded, no request fails because its file is gone, and once every
\* request is over no temporary file is left.
SentOwnBytes ==
    \A m \in published : m.body = RequestBody(Payload(m.origin))

FileStillThere ==
    \A r \in Reqs : ocr_result[r].error # "FileNotFoundError"

AllOver == \A r \in Reqs : ocr_pc[r] \in {"returned", "raised"}

C20_NoFileInterference ==
    /\ SentOwnBytes
    /\ FileStillThere
    /\ AllOver => files = NoFiles

\* C21: reply queues and connections do not accumulate: once an /ocr
\* request is over, with a reply or with an error, the connection of the
\* client it made is closed and its exclusive reply queue is gone, so the
\* live reply queues are never more than the requests in flight.
LiveReplyQueues == {n \in DOMAIN queues : queues[n].exclusive}

InFlight == {r \in Reqs : ocr_pc[r] \in {"constructed", "awaiting"}}

C21_ClientShutDownAtReturn ==
    /\ \A r \in Reqs :
          ocr_pc[r] \in {"returned", "raised"} =>
              /\ connection[r] # "open"
              /\ ~QueueExists(queues, callback_queue[r])
    /\ Cardinality(LiveReplyQueues) <= Cardinality(InFlight)

====
